---- MODULE Spec2Model ----
(***************************************************************************)
(* TaxiEnv (src/TaxiEnv.ipynb): the taxi MDP with fuel and fuel stations.  *)
(* Python indices are 0-based; TLA+ sequences are 1-based, so a Python     *)
(* lookup xs[i] is written xs[i + 1] here.                                 *)
(***************************************************************************)
EXTENDS Integers, Sequences, FiniteSets, TLC

----------------------------------------------------------------------------
(* Program constants *)

num_rows == 5
num_columns == 5
num_actions == 7
fuel_capacity == 10
num_fuel_stations == 5
max_row == num_rows - 1
max_col == num_columns - 1

\* MAP, one glyph per element: desc = np.asarray(MAP, dtype="c")
MAP ==
   << << "+", "-", "-", "-", "-", "-", "-", "-", "-", "-", "+" >>,
      << "|", "R", ":", " ", "|", " ", ":", " ", ":", "G", "|" >>,
      << "|", " ", ":", " ", "|", " ", ":", " ", ":", " ", "|" >>,
      << "|", " ", ":", " ", ":", " ", ":", " ", ":", " ", "|" >>,
      << "|", " ", "|", " ", ":", " ", "|", " ", ":", " ", "|" >>,
      << "|", "Y", "|", " ", ":", " ", "|", "B", ":", " ", "|" >>,
      << "+", "-", "-", "-", "-", "-", "-", "-", "-", "-", "+" >> >>

\* self.desc[i, j]
desc(i, j) == MAP[i + 1][j + 1]

\* self.locs: the four landmarks R, G, Y, B
locs == << <<0, 0>>, <<0, 4>>, <<4, 0>>, <<4, 3>> >>

\* An optional value: None is the empty tuple, a value x that is present is << x >>
None == << >>
Some(x) == << x >>

----------------------------------------------------------------------------
(* Bounds of the exploration *)

\* how many of the draw sequences of DrawSeqs are explored
MaxLayout == 1
\* the table builder and the categorical sample of reset are explored for
\* station_idx in 0 .. MaxStationIdx
MaxStationIdx == 2
\* the categorical sample of reset is explored for the taxi cells
\* row * 5 + col in 0 .. MaxStartCell
MaxStartCell == 0
\* the re-roll of start_fuel_station draws rows and columns in 0 .. MaxRandint
MaxRandint == 0
\* the categorical sample of reset is explored for fuel in 0 .. MaxStartFuel
MaxStartFuel == 5
\* the constructor is called with num_fuel_stations in
\* -MaxBadCount .. MaxCount, with the default 5, and with 26 .. 26 + MaxBadCount
MaxCount == 3
MaxBadCount == 1
\* decode is called with the integers q * num_states + r and
\* q * num_states + num_states - 1 - r, for q in -MaxWrap .. MaxWrap and r in
\* 0 .. MaxOffset
MaxWrap == 2
MaxOffset == 12
\* step is called with the action indices 0 .. 6 and with the two integers
\* InvalidDistance below 0 and above 6
InvalidDistance == 1

----------------------------------------------------------------------------
(* Python helpers *)

Min(a, b) == IF a < b THEN a ELSE b
Max(a, b) == IF a > b THEN a ELSE b

\* x in xs, for a list xs
In(x, xs) == \E k \in 1..Len(xs) : xs[k] = x

\* xs.index(x): the first position holding x (0-based)
Index(xs, x) == (CHOOSE k \in 1..Len(xs) : xs[k] = x /\ \A j \in 1..(k - 1) : xs[j] # x) - 1

\* the comparison of line 256 read as `taxi_loc in list`
TupleEqList_membership(t, l) == In(t, l)

\* tuple == list: a tuple and a list are of different types, so Python's ==
\* between them is False whatever they hold
TupleEqList(t, l) == FALSE

----------------------------------------------------------------------------
(* Fuel Station Set *)

\* init_fuel_stations, run on the sequence of (x, y) pairs np.random.randint
\* returns: a pair is appended unless it is already in the list, until the
\* list holds num_fuel_stations - 1 cells
RECURSIVE init_fuel_stations_loop(_, _)
init_fuel_stations_loop(acc, draws) ==
    IF ~(Len(acc) < num_fuel_stations - 1) \/ draws = <<>> THEN acc
    ELSE init_fuel_stations_loop(
             IF ~In(Head(draws), acc) THEN Append(acc, Head(draws)) ELSE acc,
             Tail(draws))

init_fuel_stations(draws) == init_fuel_stations_loop(<<>>, draws)

\* the cells of the grid in the order of the loops `for row ... for col`
GridCells == [k \in 1..(num_rows * num_columns) |->
                 << (k - 1) \div num_columns, (k - 1) % num_columns >>]

\* init_all_fuel_stations: stations + [(row, col)] for every cell not in stations
init_all_fuel_stations(st) ==
    LET free == SelectSeq(GridCells, LAMBDA c : ~In(c, st))
    IN  [k \in 1..Len(free) |-> st \o << free[k] >>]

\* Sequences of random draws for init_fuel_stations; each one is long enough
\* for the loop to end.  The first and the last repeat a draw, the third puts
\* a station on a landmark.
DrawSeqs ==
   << << <<1, 0>>, <<1, 0>>, <<0, 2>>, <<4, 4>>, <<2, 1>> >>,
      << <<2, 2>>, <<0, 1>>, <<3, 4>>, <<1, 3>> >>,
      << <<0, 0>>, <<1, 1>>, <<3, 2>>, <<0, 3>> >>,
      << <<4, 3>>, <<2, 0>>, <<2, 0>>, <<1, 4>>, <<3, 1>> >> >>

----------------------------------------------------------------------------
(* State *)

VARIABLES
    stations,           \* self.stations
    all_fuel_stations,  \* self.all_fuel_stations
    loop,               \* __init__: the indices of the table builder's loops
    entry,              \* __init__: the outcome appended to P[state][action]
    s,                  \* self.s
    lastaction,         \* self.lastaction
    sampled,            \* reset: the state drawn from initial_state_distrib
    cell,               \* start_fuel_station: the (row, col) it settles on
    ret,                \* what the last call of reset, step or decode returned
    ctor                \* __init__: num_fuel_stations, the list init_fuel_stations
                        \* is filling, the draws to come, and where __init__ is

vars == << stations, all_fuel_stations, loop, entry, s, lastaction, sampled, cell, ret, ctor >>

\* self.len_fuel_stations
len_fuel_stations == Len(all_fuel_stations)

num_states ==
    num_rows * num_columns * (Len(locs) + 1) * Len(locs) * (fuel_capacity + 1) * len_fuel_stations

----------------------------------------------------------------------------
(* State Codec *)

\* encode with the radix of the destination (4) used for the passenger location
encode_passenger_radix_4(taxi_row, taxi_col, pass_loc, dest_idx, fuel_level, station_idx) ==
    ((((taxi_row * 5 + taxi_col) * 4 + pass_loc) * 4 + dest_idx) * 11 + fuel_level)
        * len_fuel_stations + station_idx

encode(taxi_row, taxi_col, pass_loc, dest_idx, fuel_level, station_idx) ==
    LET i1 == taxi_row
        i2 == i1 * 5
        i3 == i2 + taxi_col
        i4 == i3 * 5
        i5 == i4 + pass_loc
        i6 == i5 * 4
        i7 == i6 + dest_idx
        i8 == i7 * 11
        i9 == i8 + fuel_level
        i10 == i9 * len_fuel_stations
    IN  i10 + station_idx

\* decode whose assertion is only `i < 5`
decode_upper_bound_only(i) ==
    LET i5 == ((((i \div len_fuel_stations) \div 11) \div 4) \div 5) \div 5
    IN  [raised |-> ~(i5 < 5),
         value  |-> << i5,
                       ((((i \div len_fuel_stations) \div 11) \div 4) \div 5) % 5,
                       (((i \div len_fuel_stations) \div 11) \div 4) % 5,
                       ((i \div len_fuel_stations) \div 11) % 4,
                       (i \div len_fuel_stations) % 11,
                       i % len_fuel_stations >>]

\* decode: raised is the failure of `assert 0 <= i < 5`; value is
\* reversed(out), (taxi_row, taxi_col, pass_loc, dest_idx, fuel_level, station_idx)
decode(i) ==
    LET o1 == i % len_fuel_stations
        i1 == i \div len_fuel_stations
        o2 == i1 % 11
        i2 == i1 \div 11
        o3 == i2 % 4
        i3 == i2 \div 4
        o4 == i3 % 5
        i4 == i3 \div 5
        o5 == i4 % 5
        i5 == i4 \div 5
        o6 == i5
    IN  [raised |-> ~(0 <= i5 /\ i5 < 5),
         value  |-> << o6, o5, o4, o3, o2, o1 >>]

----------------------------------------------------------------------------
(* Transition Table Builder *)

\* the vertical moves with the move north consuming no fuel
MoveVertical_north_free(d, row, fuel, action) ==
    IF action = 0 THEN [d EXCEPT !.new_row = Min(row + 1, max_row), !.new_fuel = fuel - 1]
    ELSE IF action = 1 THEN [d EXCEPT !.new_row = Max(row - 1, 0)]
    ELSE d

\* lines 225-230: the vertical moves
MoveVertical(d, row, fuel, action) ==
    IF action = 0 THEN [d EXCEPT !.new_row = Min(row + 1, max_row), !.new_fuel = fuel - 1]
    ELSE IF action = 1 THEN [d EXCEPT !.new_row = Max(row - 1, 0), !.new_fuel = fuel - 1]
    ELSE d

\* the horizontal moves with a bump into a wall consuming fuel
MoveHorizontal_bump_burns_fuel(d, row, col, fuel, action) ==
    IF action = 2 /\ desc(1 + row, 2 * col + 2) = ":"
    THEN [d EXCEPT !.new_col = Min(col + 1, max_col), !.new_fuel = fuel - 1]
    ELSE IF action = 2 /\ desc(1 + row, 2 * col + 2) = "|"
    THEN [d EXCEPT !.reward = -5, !.new_fuel = fuel - 1]
    ELSE IF action = 3 /\ desc(1 + row, 2 * col) = ":"
    THEN [d EXCEPT !.new_col = Max(col - 1, 0), !.new_fuel = fuel - 1]
    ELSE IF action = 3 /\ desc(1 + row, 2 * col) = "|"
    THEN [d EXCEPT !.reward = -5, !.new_fuel = fuel - 1]
    ELSE d

\* lines 231-240: the horizontal moves
MoveHorizontal(d, row, col, fuel, action) ==
    IF action = 2 /\ desc(1 + row, 2 * col + 2) = ":"
    THEN [d EXCEPT !.new_col = Min(col + 1, max_col), !.new_fuel = fuel - 1]
    ELSE IF action = 2 /\ desc(1 + row, 2 * col + 2) = "|"
    THEN [d EXCEPT !.reward = -5]
    ELSE IF action = 3 /\ desc(1 + row, 2 * col) = ":"
    THEN [d EXCEPT !.new_col = Max(col - 1, 0), !.new_fuel = fuel - 1]
    ELSE IF action = 3 /\ desc(1 + row, 2 * col) = "|"
    THEN [d EXCEPT !.reward = -5]
    ELSE d

\* pickup that takes a unit of fuel
Pickup_burns_fuel(d, taxi_loc, pass_idx) ==
    IF pass_idx < 4 /\ taxi_loc = locs[pass_idx + 1]
    THEN [d EXCEPT !.new_pass_idx = 4, !.new_fuel = @ - 1]
    ELSE [d EXCEPT !.reward = -10]

\* pickup that does not compare the taxi's cell with the passenger's landmark
Pickup_anywhere(d, taxi_loc, pass_idx) ==
    IF pass_idx < 4
    THEN [d EXCEPT !.new_pass_idx = 4]
    ELSE [d EXCEPT !.reward = -10]

\* pickup that charges the penalty on success too
Pickup_always_penalty(d, taxi_loc, pass_idx) ==
    IF pass_idx < 4 /\ taxi_loc = locs[pass_idx + 1]
    THEN [d EXCEPT !.new_pass_idx = 4, !.reward = -10]
    ELSE [d EXCEPT !.reward = -10]

\* lines 242-245: pickup
Pickup(d, taxi_loc, pass_idx) ==
    IF pass_idx < 4 /\ taxi_loc = locs[pass_idx + 1]
    THEN [d EXCEPT !.new_pass_idx = 4]
    ELSE [d EXCEPT !.reward = -10]

\* dropoff with its first two branches in the other order
Dropoff_landmark_first(d, taxi_loc, pass_idx, dest_idx) ==
    IF In(taxi_loc, locs) /\ pass_idx = 4
    THEN [d EXCEPT !.new_pass_idx = Index(locs, taxi_loc)]
    ELSE IF taxi_loc = locs[dest_idx + 1] /\ pass_idx = 4
    THEN [d EXCEPT !.new_pass_idx = dest_idx, !.terminated = TRUE, !.reward = 20]
    ELSE [d EXCEPT !.reward = -20]

\* dropoff without the branch of the other landmarks
Dropoff_destination_only(d, taxi_loc, pass_idx, dest_idx) ==
    IF taxi_loc = locs[dest_idx + 1] /\ pass_idx = 4
    THEN [d EXCEPT !.new_pass_idx = dest_idx, !.terminated = TRUE, !.reward = 20]
    ELSE [d EXCEPT !.reward = -20]

\* dropoff with the penalty of the pickup on its last branch
Dropoff_pickup_penalty(d, taxi_loc, pass_idx, dest_idx) ==
    IF taxi_loc = locs[dest_idx + 1] /\ pass_idx = 4
    THEN [d EXCEPT !.new_pass_idx = dest_idx, !.terminated = TRUE, !.reward = 20]
    ELSE IF In(taxi_loc, locs) /\ pass_idx = 4
    THEN [d EXCEPT !.new_pass_idx = Index(locs, taxi_loc)]
    ELSE [d EXCEPT !.reward = -10]

\* dropoff whose delivery does not end the episode
Dropoff_delivery_goes_on(d, taxi_loc, pass_idx, dest_idx) ==
    IF taxi_loc = locs[dest_idx + 1] /\ pass_idx = 4
    THEN [d EXCEPT !.new_pass_idx = dest_idx, !.reward = 20]
    ELSE IF In(taxi_loc, locs) /\ pass_idx = 4
    THEN [d EXCEPT !.new_pass_idx = Index(locs, taxi_loc)]
    ELSE [d EXCEPT !.reward = -20]

\* lines 247-254: dropoff
Dropoff(d, taxi_loc, pass_idx, dest_idx) ==
    IF taxi_loc = locs[dest_idx + 1] /\ pass_idx = 4
    THEN [d EXCEPT !.new_pass_idx = dest_idx, !.terminated = TRUE, !.reward = 20]
    ELSE IF In(taxi_loc, locs) /\ pass_idx = 4
    THEN [d EXCEPT !.new_pass_idx = Index(locs, taxi_loc)]
    ELSE [d EXCEPT !.reward = -20]

\* refuel without a penalty on its else branch
Refuel_no_penalty(d, taxi_loc, fuel, station_idx) ==
    IF TupleEqList(taxi_loc, all_fuel_stations[station_idx + 1]) /\ fuel < fuel_capacity
    THEN [d EXCEPT !.new_fuel = fuel_capacity]
    ELSE d

\* lines 256-259: refuel
Refuel(d, taxi_loc, fuel, station_idx) ==
    IF TupleEqList(taxi_loc, all_fuel_stations[station_idx + 1]) /\ fuel < fuel_capacity
    THEN [d EXCEPT !.new_fuel = fuel_capacity]
    ELSE [d EXCEPT !.reward = -10]

\* lines 231-259: the chain `if action == 2 ... elif action == 6`
ApplyAction(d, row, col, pass_idx, dest_idx, fuel, station_idx, action) ==
    IF action = 2 \/ action = 3 THEN MoveHorizontal(d, row, col, fuel, action)
    ELSE IF action = 4 THEN Pickup(d, << row, col >>, pass_idx)
    ELSE IF action = 5 THEN Dropoff(d, << row, col >>, pass_idx, dest_idx)
    ELSE IF action = 6 THEN Refuel(d, << row, col >>, fuel, station_idx)
    ELSE d

\* running out of fuel without `new_fuel = 0`
FuelExhaustion_no_clamp(d) ==
    IF d.new_fuel <= 0
    THEN [d EXCEPT !.reward = -20, !.terminated = TRUE]
    ELSE d

\* running out of fuel without `reward = -20`
FuelExhaustion_keep_reward(d) ==
    IF d.new_fuel <= 0
    THEN [d EXCEPT !.new_fuel = 0, !.terminated = TRUE]
    ELSE d

\* running out of fuel tested with `new_fuel < 0`
FuelExhaustion_below_zero(d) ==
    IF d.new_fuel < 0
    THEN [d EXCEPT !.reward = -20, !.new_fuel = 0, !.terminated = TRUE]
    ELSE d

\* lines 261-264: running out of fuel
FuelExhaustion(d) ==
    IF d.new_fuel <= 0
    THEN [d EXCEPT !.reward = -20, !.new_fuel = 0, !.terminated = TRUE]
    ELSE d

\* lines 266-271: the outcome (p, new_state, reward, terminated) appended to
\* P[state][action]; p is the probability 1.0
Outcome(d, dest_idx, station_idx) ==
    [p |-> 1,
     new_state |-> encode(d.new_row, d.new_col, d.new_pass_idx, dest_idx,
                          d.new_fuel, station_idx),
     reward |-> d.reward,
     terminated |-> d.terminated]

\* lines 217-271: the list P[state][action] the builder leaves for one
\* (state, action)
Transitions(row, col, pass_idx, dest_idx, fuel, station_idx, action) ==
    LET d0 == [new_row |-> row, new_col |-> col, new_pass_idx |-> pass_idx,
               reward |-> -1, terminated |-> FALSE, new_fuel |-> fuel]
        d1 == MoveVertical(d0, row, fuel, action)
        d2 == ApplyAction(d1, row, col, pass_idx, dest_idx, fuel, station_idx, action)
    IN  << Outcome(FuelExhaustion(d2), dest_idx, station_idx) >>

\* the entry of the table for the indices t = (row, col, pass_idx, dest_idx,
\* fuel, station_idx)
TransitionsAt(t, action) == Transitions(t[1], t[2], t[3], t[4], t[5], t[6], action)

\* self.P[state][action], for a state of the table: the builder stores the
\* outcomes of the indices (row, col, pass_idx, dest_idx, fuel, station_idx)
\* under state = encode(indices)
P(state, action) == TransitionsAt(decode(state).value, action)

\* the count of the builder without the test `pass_idx != dest_idx`
InitialCount_at_destination_too(row, col, pass_idx, dest_idx, fuel, station_idx) ==
    IF pass_idx < 4 THEN 1 ELSE 0

\* the count of the builder without the test `pass_idx < 4`
InitialCount_in_taxi_too(row, col, pass_idx, dest_idx, fuel, station_idx) ==
    IF pass_idx # dest_idx THEN 1 ELSE 0

\* lines 214-215: the count the builder adds to initial_state_distrib[state]
InitialCount(row, col, pass_idx, dest_idx, fuel, station_idx) ==
    IF pass_idx < 4 /\ pass_idx # dest_idx THEN 1 ELSE 0

----------------------------------------------------------------------------
(* Episode Engine *)

\* action_mask, lines 328-343: mask[0], ..., mask[6] for the decoded state
\* t = (taxi_row, taxi_col, pass_loc, dest_idx, fuel_level, station_idx)
MaskBits(t) ==
    LET taxi_row == t[1]
        taxi_col == t[2]
        pass_loc == t[3]
        dest_idx == t[4]
        station_idx == t[6]
    IN  << IF taxi_row < 4 THEN 1 ELSE 0,
           IF taxi_row > 0 THEN 1 ELSE 0,
           IF taxi_col < 4 /\ desc(taxi_row + 1, 2 * taxi_col + 2) = ":" THEN 1 ELSE 0,
           IF taxi_col > 0 /\ desc(taxi_row + 1, 2 * taxi_col) = ":" THEN 1 ELSE 0,
           IF pass_loc < 4 /\ << taxi_row, taxi_col >> = locs[pass_loc + 1] THEN 1 ELSE 0,
           IF pass_loc = 4 /\ (\/ << taxi_row, taxi_col >> = locs[dest_idx + 1]
                               \/ In(<< taxi_row, taxi_col >>, locs))
           THEN 1 ELSE 0,
           IF In(<< taxi_row, taxi_col >>, all_fuel_stations[station_idx + 1])
           THEN 1 ELSE 0 >>

\* action_mask without the test `taxi_row < 4` of the move south
action_mask_south_always(state) == [MaskBits(decode(state).value) EXCEPT ![1] = 1]

\* action_mask(state), lines 324-344
action_mask(state) == MaskBits(decode(state).value)

\* start_fuel_station, lines 395-412: the lists possible_rows and possible_cols
possible_rows(mask, taxi_row) ==
    (IF mask[1] = 1 THEN << taxi_row + 1 >> ELSE << >>)
    \o (IF mask[2] = 1 THEN << taxi_row - 1 >> ELSE << >>)
    \o (IF mask[3] = 1 THEN << taxi_row >> ELSE << >>)
    \o (IF mask[4] = 1 THEN << taxi_row >> ELSE << >>)

possible_cols(mask, taxi_col) ==
    (IF mask[1] = 1 THEN << taxi_col >> ELSE << >>)
    \o (IF mask[2] = 1 THEN << taxi_col >> ELSE << >>)
    \o (IF mask[3] = 1 THEN << taxi_col + 1 >> ELSE << >>)
    \o (IF mask[4] = 1 THEN << taxi_col - 1 >> ELSE << >>)

\* start_fuel_station, lines 414-419: (row, col) after np.random.choice drew
\* row and col and, while (row, col) is a base station, np.random.randint drew
\* both again; reroll is the pair of the last such draw
StartCell(row, col, reroll) ==
    IF In(<< row, col >>, stations) THEN reroll ELSE << row, col >>

\* start_fuel_station handing out a full tank
start_fuel_station_full_tank(state, c) ==
    LET t == decode(state).value
        station_idx == Index(all_fuel_stations, stations \o << c >>)
    IN  encode(t[1], t[2], t[3], t[4], fuel_capacity, station_idx)

\* start_fuel_station encoding the cell settled on as the taxi's position
start_fuel_station_relocate(state, c) ==
    LET t == decode(state).value
        station_idx == Index(all_fuel_stations, stations \o << c >>)
    IN  encode(c[1], c[2], t[3], t[4], t[5], station_idx)

\* start_fuel_station, lines 421-424: the state returned for the cell settled on
start_fuel_station(state, c) ==
    LET t == decode(state).value
        station_idx == Index(all_fuel_stations, stations \o << c >>)
    IN  encode(t[1], t[2], t[3], t[4], t[5], station_idx)

\* reset, line 434: the states categorical_sample can return are those of
\* positive probability in initial_state_distrib
Sampled ==
    { encode(c \div num_columns, c % num_columns, pass_idx, dest_idx, fuel, station_idx) :
        << c, pass_idx, dest_idx, fuel, station_idx >> \in
            { x \in (0..Min(MaxStartCell, num_rows * num_columns - 1))
                     \X (0..Len(locs)) \X (0..(Len(locs) - 1))
                     \X (0..Min(MaxStartFuel, fuel_capacity))
                     \X (0..Min(MaxStationIdx, len_fuel_stations - 1)) :
                InitialCount(x[1] \div num_columns, x[1] % num_columns,
                             x[2], x[3], x[4], x[5]) > 0 } }

\* the cells the re-roll of line 418-419 can end on
RerollCells ==
    { c \in (0..Min(MaxRandint, 4)) \X (0..Min(MaxRandint, 4)) : ~In(c, stations) }

----------------------------------------------------------------------------
(* Construction: __init__ up to the table builder *)

\* lines 173-179, with stations = None: the stations are drawn at random
Construct ==
    /\ \E k \in 1..MaxLayout : stations = init_fuel_stations(DrawSeqs[k])
    /\ all_fuel_stations = init_all_fuel_stations(stations)

\* the episode engine before the first reset
NoEpisode ==
    /\ s = None
    /\ lastaction = None
    /\ sampled = None
    /\ cell = None
    /\ ret = None

----------------------------------------------------------------------------
(* SpecConstruct: __init__(num_fuel_stations = n), stations = None, with    *)
(* the loop of init_fuel_stations taken one draw at a time                  *)

\* the values of the parameter num_fuel_stations the constructor is called with
CountInputs ==
    ((0 - MaxBadCount)..MaxCount)
    \cup { num_fuel_stations }
    \cup ((num_rows * num_columns + 1)..(num_rows * num_columns + 1 + MaxBadCount))

\* the sequences of draws of lines 365-366 explored: each one ends with every
\* cell of the grid, so that it is used up only when no cell is left to draw
ConstructDraws ==
    { DrawSeqs[k] \o GridCells : k \in 1..MaxLayout } \cup { GridCells }

InitConstruct ==
    /\ stations = << >>
    /\ all_fuel_stations = << >>
    /\ NoEpisode
    /\ loop = None
    /\ entry = None
    /\ \E n \in CountInputs, draws \in ConstructDraws :
          \* line 173, and line 362 on entry of init_fuel_stations
          ctor = Some([num_fuel_stations |-> n, stations |-> << >>,
                       draws |-> draws, pc |-> "init_fuel_stations"])

\* lines 364-368: one turn of the while loop
DrawStation ==
    /\ ctor[1].pc = "init_fuel_stations"
    /\ Len(ctor[1].stations) < ctor[1].num_fuel_stations - 1
    /\ ctor[1].draws # << >>
    /\ LET xy == Head(ctor[1].draws)
       IN  ctor' = Some([ctor[1] EXCEPT
                            !.stations = IF ~In(xy, @) THEN Append(@, xy) ELSE @,
                            !.draws = Tail(@)])
    /\ UNCHANGED << stations, all_fuel_stations, loop, entry, s, lastaction, sampled, cell, ret >>

\* the while loop ends: line 370 returns the list, lines 175 and 178-179 store
\* it and the configurations, and the rest of __init__ builds the table of the
\* len_fuel_stations configurations and returns
ReturnStations ==
    /\ ctor[1].pc = "init_fuel_stations"
    /\ ~(Len(ctor[1].stations) < ctor[1].num_fuel_stations - 1)
    /\ stations' = ctor[1].stations
    /\ all_fuel_stations' = init_all_fuel_stations(ctor[1].stations)
    /\ ctor' = Some([ctor[1] EXCEPT !.pc = "returned"])
    /\ UNCHANGED << loop, entry, s, lastaction, sampled, cell, ret >>

NextConstruct == DrawStation \/ ReturnStations

SpecConstruct == InitConstruct /\ [][NextConstruct]_vars

----------------------------------------------------------------------------
(* SpecTable: the table builder at one (row, col, pass_idx, dest_idx, fuel,   *)
(* station_idx) of its loops, appending the outcome of each action in turn  *)

InitTable ==
    /\ Construct
    /\ ctor = None
    /\ NoEpisode
    /\ entry = None
    /\ \E row \in 0..(num_rows - 1), col \in 0..(num_columns - 1),
          pass_idx \in 0..Len(locs), dest_idx \in 0..(Len(locs) - 1),
          fuel \in 0..fuel_capacity,
          station_idx \in 0..Min(MaxStationIdx, len_fuel_stations - 1) :
            loop = Some([row |-> row, col |-> col, pass_idx |-> pass_idx,
                         dest_idx |-> dest_idx, fuel |-> fuel, station_idx |-> station_idx,
                         state |-> encode(row, col, pass_idx, dest_idx, fuel, station_idx)])

\* one turn of `for action in range(num_actions)`, lines 216-271
BuildEntry ==
    LET action == IF entry = None THEN 0 ELSE entry[1].action + 1
    IN  /\ action < num_actions
        /\ entry' = Some([action |-> action,
                          transitions |-> Transitions(loop[1].row, loop[1].col,
                                                      loop[1].pass_idx, loop[1].dest_idx,
                                                      loop[1].fuel, loop[1].station_idx,
                                                      action)])
        /\ UNCHANGED << stations, all_fuel_stations, loop, s, lastaction, sampled, cell, ret, ctor >>

NextTable == BuildEntry

SpecTable == InitTable /\ [][NextTable]_vars

----------------------------------------------------------------------------
(* Spec: episodes on the constructed environment *)

Init ==
    /\ Construct
    /\ ctor = None
    /\ NoEpisode
    /\ loop = None
    /\ entry = None

\* reset, lines 433-442, called to begin the episode.  reset reads nothing of
\* the episode it replaces, so a later call returns the states this one returns.
Reset ==
    /\ s = None
    /\ \E smp \in Sampled :
         LET mask == action_mask(smp)
             t == decode(smp).value
             rows == possible_rows(mask, t[1])
             cols == possible_cols(mask, t[2])
         IN  \E i \in 1..Len(rows), j \in 1..Len(cols) :
               \E reroll \in IF In(<< rows[i], cols[j] >>, stations)
                              THEN RerollCells ELSE { << rows[i], cols[j] >> } :
                 LET c == StartCell(rows[i], cols[j], reroll)
                     new == start_fuel_station(smp, c)
                 IN  /\ sampled' = Some(smp)
                     /\ cell' = Some([first |-> << rows[i], cols[j] >>, final |-> c])
                     /\ s' = Some(new)
                     /\ lastaction' = None
                     /\ ret' = Some([call |-> "reset", state |-> new, prob |-> 1,
                                     action_mask |-> action_mask(new)])
                     /\ UNCHANGED << stations, all_fuel_stations, loop, entry, ctor >>

\* a table that answers every action index
ActionKeys_any == Int

\* lines 200-203: the keys of the dict self.P[state], range(num_actions)
ActionKeys == 0..(num_actions - 1)

\* the action indices step is called with: the keys and one integer on
\* either side of them
ActionInputs ==
    (0..(num_actions - 1)) \cup { 0 - InvalidDistance, num_actions - 1 + InvalidDistance }

\* step(a) that returns the table outcome without adopting it as self.s
Step_state_not_adopted(a) ==
    /\ s # None
    /\ IF a \in ActionKeys
       THEN LET transitions == P(s[1], a)
                i == CHOOSE k \in 1..Len(transitions) : transitions[k].p > 0
            IN  \E tr \in { transitions[i] } :
                  /\ s' = s
                  /\ lastaction' = Some(a)
                  /\ ret' = Some([call |-> "step", action |-> a,
                                  state |-> tr.new_state, reward |-> tr.reward,
                                  terminated |-> tr.terminated, truncated |-> FALSE,
                                  prob |-> tr.p, action_mask |-> action_mask(tr.new_state)])
       ELSE /\ s' = s
            /\ lastaction' = lastaction
            /\ ret' = Some([call |-> "step", action |-> a, raised |-> "KeyError"])
    /\ sampled' = None
    /\ cell' = None
    /\ UNCHANGED << stations, all_fuel_stations, loop, entry, ctor >>

\* step(a), lines 347-355.  Line 347 reads self.P[self.s][a]: for a that is not
\* a key of the dict it raises KeyError before any assignment.
Step(a) ==
    /\ s # None
    /\ IF a \in ActionKeys
       THEN LET transitions == P(s[1], a)
                \* categorical_sample over the probabilities of the list
                i == CHOOSE k \in 1..Len(transitions) : transitions[k].p > 0
            IN  \E tr \in { transitions[i] } :
                  /\ s' = Some(tr.new_state)
                  /\ lastaction' = Some(a)
                  /\ ret' = Some([call |-> "step", action |-> a,
                                  state |-> tr.new_state, reward |-> tr.reward,
                                  terminated |-> tr.terminated, truncated |-> FALSE,
                                  prob |-> tr.p, action_mask |-> action_mask(tr.new_state)])
       ELSE /\ s' = s
            /\ lastaction' = lastaction
            /\ ret' = Some([call |-> "step", action |-> a, raised |-> "KeyError"])
    /\ sampled' = None
    /\ cell' = None
    /\ UNCHANGED << stations, all_fuel_stations, loop, entry, ctor >>

Next ==
    \/ Reset
    \/ \E a \in ActionInputs : Step(a)

Spec == Init /\ [][Next]_vars

----------------------------------------------------------------------------
(* SpecCodec: calls of decode on the constructed environment *)

\* the integers decode is called with: the ends of the domain 0 .. num_states - 1
\* and of its copies below and above
DecodeInputs ==
    { q * num_states + r : q \in (0 - MaxWrap)..MaxWrap, r \in 0..MaxOffset }
    \cup { q * num_states + num_states - 1 - r :
              q \in (0 - MaxWrap)..MaxWrap, r \in 0..MaxOffset }

\* decode(i), lines 308-322: the failed assertion raises AssertionError,
\* otherwise reversed(out) is returned
Decode(i) ==
    /\ \E d \in { decode(i) } :
          ret' = IF d.raised
                 THEN Some([call |-> "decode", i |-> i, raised |-> "AssertionError"])
                 ELSE Some([call |-> "decode", i |-> i, value |-> d.value])
    /\ UNCHANGED << stations, all_fuel_stations, loop, entry, s, lastaction, sampled, cell, ctor >>

NextCodec == \E i \in DecodeInputs : Decode(i)

SpecCodec == Init /\ [][NextCodec]_vars

----------------------------------------------------------------------------
(* Properties of the table builder, stated of SpecTable *)

\* the outcome the builder appended last, its action, and the fields its
\* new_state decodes to
Out == entry[1].transitions[1]
Act == entry[1].action
NextFields == decode(Out.new_state).value
LoopFields ==
    << loop[1].row, loop[1].col, loop[1].pass_idx, loop[1].dest_idx, loop[1].fuel,
       loop[1].station_idx >>
TaxiLoc == << loop[1].row, loop[1].col >>

\* C1: decode(encode(tuple)) is the tuple, field by field and in the same
\* order, for every six-tuple of the declared domain, and encode(tuple) lies in
\* 0 .. num_states - 1; so distinct tuples have distinct codes, which, being as
\* many as the tuples, are all of 0 .. num_states - 1.
C1_CodecRoundTrip ==
    loop # None =>
        /\ ~decode(loop[1].state).raised
        /\ decode(loop[1].state).value = LoopFields
        /\ loop[1].state \in 0..(num_states - 1)

C1_Witness ==
    /\ loop # None
    /\ LoopFields = << 4, 3, 4, 3, 10, 1 >>
    /\ decode(loop[1].state).value = << 4, 3, 4, 3, 10, 1 >>

\* C2: the list the builder leaves for a (state, action) holds exactly one
\* outcome, of probability 1.0, and its next_state is a state of the table
\* that decodes to row, col in 0..4, passenger in 0..4, destination in 0..3,
\* fuel in 0..10 and station_idx in 0 .. S - 1.
C2_OneOutcomeInDomain ==
    entry # None =>
        /\ Len(entry[1].transitions) = 1
        /\ Out.p = 1
        /\ Out.new_state \in 0..(num_states - 1)
        /\ ~decode(Out.new_state).raised
        /\ NextFields[1] \in 0..4
        /\ NextFields[2] \in 0..4
        /\ NextFields[3] \in 0..4
        /\ NextFields[4] \in 0..3
        /\ NextFields[5] \in 0..10
        /\ NextFields[6] \in 0..(len_fuel_stations - 1)

C2_Witness ==
    /\ entry # None
    /\ Act = 1
    /\ loop[1].row = 0
    /\ loop[1].fuel = 0
    /\ NextFields[1] = 0
    /\ NextFields[5] = 0

\* C3: whenever the fuel of next_state is 0, the outcome is terminated with
\* reward -20, whatever the action.
C3_FuelExhaustionOverride ==
    entry # None =>
        (NextFields[5] = 0 => Out.terminated /\ Out.reward = -20)

\* a dropoff at the destination out of fuel: the reward 20 is overridden
C3_Witness ==
    /\ entry # None
    /\ Act = 5
    /\ loop[1].pass_idx = 4
    /\ TaxiLoc = locs[loop[1].dest_idx + 1]
    /\ loop[1].fuel = 0
    /\ Out.reward = -20
    /\ Out.terminated

\* the case of C4: dropoff with the passenger in the taxi on the destination
DropoffAtDestination ==
    /\ entry # None
    /\ Act = 5
    /\ loop[1].pass_idx = 4
    /\ TaxiLoc = locs[loop[1].dest_idx + 1]

\* C4 as stated: dropoff with the passenger in the taxi on the destination
\* landmark yields reward 20, terminated and passenger = destination at every
\* fuel level 0..10.
C4_DropoffAtDestination_AnyFuel ==
    DropoffAtDestination =>
        /\ Out.reward = 20
        /\ Out.terminated
        /\ NextFields[3] = loop[1].dest_idx

\* C4 amended: that holds at the fuel levels 1..10; at fuel 0 the outcome is
\* terminated with passenger = destination and reward -20.
C4_DropoffAtDestination ==
    DropoffAtDestination =>
        /\ Out.terminated
        /\ NextFields[3] = loop[1].dest_idx
        /\ Out.reward = IF loop[1].fuel >= 1 THEN 20 ELSE -20

C4_Witness ==
    /\ DropoffAtDestination
    /\ loop[1].fuel = 1
    /\ Out.reward = 20
    /\ Out.terminated

\* C5: refuel from a cell of the active station configuration with fuel in
\* 1..9 sets fuel to 10 with reward -1, not terminated, and changes nothing else.
C5_RefuelAtStation ==
    ( /\ entry # None
      /\ Act = 6
      /\ In(TaxiLoc, all_fuel_stations[loop[1].station_idx + 1])
      /\ loop[1].fuel \in 1..9 ) =>
        /\ NextFields = [LoopFields EXCEPT ![5] = fuel_capacity]
        /\ Out.reward = -1
        /\ ~Out.terminated

\* the reward of the penalty rule of an action; 0 for the vertical moves,
\* which have none
PenaltyReward(a) ==
    IF a \in {2, 3} THEN -5 ELSE IF a = 4 THEN -10 ELSE IF a = 5 THEN -20
    ELSE IF a = 6 THEN -10 ELSE 0

\* the success rule of the action was applied to the entry
SuccessRule ==
    /\ Act = 0 => NextFields[1] = loop[1].row + 1
    /\ Act = 1 => NextFields[1] = loop[1].row - 1
    /\ Act = 2 => NextFields[2] = loop[1].col + 1
    /\ Act = 3 => NextFields[2] = loop[1].col - 1
    /\ Act = 4 => loop[1].pass_idx < 4 /\ NextFields[3] = 4
    /\ Act = 5 => In(TaxiLoc, locs) /\ NextFields[3] = Index(locs, TaxiLoc)
    /\ (Act = 6 /\ loop[1].fuel < fuel_capacity) => NextFields[5] = fuel_capacity
    /\ (NextFields[5] > 0 /\ ~(Act = 6 /\ loop[1].fuel = fuel_capacity))
           => Out.reward # PenaltyReward(Act)

\* C6: at every action the mask lets in, the entry of the table applies the
\* action's success rule and not its penalty rule.
C6_MaskAgreesWithTable ==
    (entry # None /\ action_mask(loop[1].state)[Act + 1] = 1) => SuccessRule

PickupElsewhere ==
    /\ entry # None
    /\ Act = 4
    /\ ~(loop[1].pass_idx < 4 /\ TaxiLoc = locs[loop[1].pass_idx + 1])

\* C10 as stated: such a pickup yields reward -10, next_state = state and
\* terminated = false, at every fuel level.
C10_PickupElsewhere_AnyFuel ==
    PickupElsewhere =>
        /\ Out.reward = -10
        /\ Out.new_state = loop[1].state
        /\ ~Out.terminated

\* C10 amended: that holds at the fuel levels 1..10; at fuel 0 the state is
\* unchanged too, and the outcome is terminated with reward -20.
C10_PickupElsewhere ==
    PickupElsewhere =>
        /\ Out.new_state = loop[1].state
        /\ Out.reward = IF loop[1].fuel >= 1 THEN -10 ELSE -20
        /\ Out.terminated = (loop[1].fuel = 0)

C10_Witness ==
    /\ PickupElsewhere
    /\ loop[1].pass_idx = 4
    /\ loop[1].fuel = 3
    /\ Out.reward = -10
    /\ Out.new_state = loop[1].state

\* the case of C11: a move east or west against a wall
BlockedHorizontal ==
    /\ entry # None
    /\ \/ Act = 2 /\ desc(1 + loop[1].row, 2 * loop[1].col + 2) = "|"
       \/ Act = 3 /\ desc(1 + loop[1].row, 2 * loop[1].col) = "|"

C12_LastFuelUnit ==
    (entry # None /\ Act \in {0, 1} /\ loop[1].fuel = 1) =>
        /\ Out.terminated
        /\ Out.reward = -20
        /\ NextFields[5] = 0

\* a move south on the bottom row with the last fuel unit
C12_Witness ==
    /\ entry # None
    /\ Act = 0
    /\ loop[1].row = 4
    /\ loop[1].fuel = 1
    /\ NextFields[1] = 4
    /\ NextFields[5] = 0
    /\ Out.terminated

\* C13: pickup with fuel >= 1, the passenger at a landmark and the taxi on
\* that landmark puts the passenger in the taxi with reward -1, terminated =
\* false, and row, col, destination, fuel and station_idx unchanged.
C13_PickupAtLandmark ==
    ( /\ entry # None
      /\ Act = 4
      /\ loop[1].fuel >= 1
      /\ loop[1].pass_idx < 4
      /\ TaxiLoc = locs[loop[1].pass_idx + 1] ) =>
        /\ NextFields = [LoopFields EXCEPT ![3] = 4]
        /\ Out.reward = -1
        /\ ~Out.terminated

C13_Witness ==
    /\ entry # None
    /\ Act = 4
    /\ LoopFields = << 0, 0, 0, 1, 10, 1 >>
    /\ NextFields = << 0, 0, 4, 1, 10, 1 >>
    /\ Out.reward = -1

\* the boundary a move east (action 2) or west (action 3) crosses is open
OpenCorridor(a) ==
    \/ a = 2 /\ desc(1 + loop[1].row, 2 * loop[1].col + 2) = ":"
    \/ a = 3 /\ desc(1 + loop[1].row, 2 * loop[1].col) = ":"

\* C19: with fuel >= 2, a move south or north changes the row by one in its
\* direction, clamped at the grid edge, a move east or west through an open
\* corridor changes the column by one; each consumes one fuel unit with reward
\* -1 and terminated = false and changes nothing else.  The column changes
\* only by a move east or west through an open corridor.
C19_SuccessfulMove ==
    entry # None =>
        /\ (loop[1].fuel >= 2 /\ (Act \in {0, 1} \/ OpenCorridor(Act))) =>
              /\ NextFields =
                    [LoopFields EXCEPT
                        ![1] = IF Act = 0 THEN Min(loop[1].row + 1, 4)
                               ELSE IF Act = 1 THEN Max(loop[1].row - 1, 0)
                               ELSE loop[1].row,
                        ![2] = IF Act = 2 THEN loop[1].col + 1
                               ELSE IF Act = 3 THEN loop[1].col - 1
                               ELSE loop[1].col,
                        ![5] = loop[1].fuel - 1]
              /\ Out.reward = -1
              /\ ~Out.terminated
        /\ NextFields[2] # loop[1].col => OpenCorridor(Act)

\* a move north on the top row: the row stays and a fuel unit is consumed
C19_Witness ==
    /\ entry # None
    /\ Act = 1
    /\ LoopFields = << 0, 2, 1, 3, 2, 0 >>
    /\ NextFields = << 0, 2, 1, 3, 1, 0 >>
    /\ Out.reward = -1

\* C20: dropoff with fuel >= 1, the passenger in the taxi and the taxi on a
\* landmark other than the destination sets the passenger to that landmark
\* with reward -1, terminated = false, and changes no other field.
C20_DropoffAtOtherLandmark ==
    ( /\ entry # None
      /\ Act = 5
      /\ loop[1].fuel >= 1
      /\ loop[1].pass_idx = 4
      /\ In(TaxiLoc, locs)
      /\ TaxiLoc # locs[loop[1].dest_idx + 1] ) =>
        /\ NextFields = [LoopFields EXCEPT ![3] = Index(locs, TaxiLoc)]
        /\ Out.reward = -1
        /\ ~Out.terminated

\* the passenger leaves the taxi at B (4, 3) on the way to G
C20_Witness ==
    /\ entry # None
    /\ Act = 5
    /\ LoopFields = << 4, 3, 4, 1, 6, 2 >>
    /\ NextFields = << 4, 3, 3, 1, 6, 2 >>
    /\ Out.reward = -1
    /\ ~Out.terminated

\* the case of C21: a dropoff with the passenger not in the taxi or the taxi
\* on no landmark
IllegalDropoff ==
    /\ entry # None
    /\ Act = 5
    /\ (loop[1].pass_idx # 4 \/ ~In(TaxiLoc, locs))

InvalidRefuel ==
    /\ entry # None
    /\ Act = 6
    /\ \/ ~In(TaxiLoc, all_fuel_stations[loop[1].station_idx + 1])
       \/ loop[1].fuel = fuel_capacity

\* C22 as stated: such a refuel yields reward -10 and terminated = false and
\* leaves fuel and every other field unchanged, from every state.
C22_InvalidRefuel_AnyFuel ==
    InvalidRefuel =>
        /\ Out.reward = -10
        /\ ~Out.terminated
        /\ NextFields = LoopFields

\* C22 amended: such a refuel leaves fuel and every other field unchanged;
\* with fuel in 1..10 it yields reward -10 and terminated = false, with fuel 0
\* reward -20 and terminated = true.
C22_InvalidRefuel ==
    InvalidRefuel =>
        /\ Out.reward = IF loop[1].fuel >= 1 THEN -10 ELSE -20
        /\ Out.terminated = (loop[1].fuel = 0)
        /\ NextFields = LoopFields

\* a refuel with a full tank on the base station (1, 0)
C22_Witness ==
    /\ InvalidRefuel
    /\ In(TaxiLoc, all_fuel_stations[loop[1].station_idx + 1])
    /\ loop[1].fuel = fuel_capacity
    /\ Out.reward = -10
    /\ NextFields[5] = fuel_capacity

\* C24: the outcome of an entry has terminated = true exactly when the action
\* is dropoff with the passenger in the taxi on the destination landmark, or
\* the fuel of the next state is 0.
C24_TerminatedIff ==
    entry # None =>
        (Out.terminated <=>
            \/ Act = 5 /\ loop[1].pass_idx = 4 /\ TaxiLoc = locs[loop[1].dest_idx + 1]
            \/ NextFields[5] = 0)

\* a delivery with fuel left: terminated by the dropoff alone
C24_Witness ==
    /\ entry # None
    /\ Act = 5
    /\ loop[1].pass_idx = 4
    /\ TaxiLoc = locs[loop[1].dest_idx + 1]
    /\ Out.terminated
    /\ NextFields[5] = 3

\* C26: no entry changes destination or station_idx; pickup, dropoff and
\* refuel leave row and column; the moves leave the passenger; only the moves
\* and refuel can change fuel.
C26_Frame ==
    entry # None =>
        /\ NextFields[4] = loop[1].dest_idx
        /\ NextFields[6] = loop[1].station_idx
        /\ Act \in {4, 5, 6} =>
              << NextFields[1], NextFields[2] >> = TaxiLoc
        /\ Act \in {0, 1, 2, 3} => NextFields[3] = loop[1].pass_idx
        /\ NextFields[5] # loop[1].fuel => Act \in {0, 1, 2, 3, 6}

\* a pickup that changes the passenger and nothing else
C26_Witness ==
    /\ entry # None
    /\ Act = 4
    /\ LoopFields = << 4, 3, 3, 0, 5, 0 >>
    /\ NextFields = << 4, 3, 4, 0, 5, 0 >>

----------------------------------------------------------------------------
(* Properties of reset, stated of Spec *)

\* after reset: the fields of the returned state, those of the sampled state,
\* and the extra cell of the configuration the returned state selects
ResetFields == decode(s[1]).value
SampledFields == decode(sampled[1]).value
ExtraCell ==
    LET cfg == all_fuel_stations[ResetFields[6] + 1] IN cfg[Len(cfg)]

\* C8 as stated: in the state reset returns the taxi is on the extra cell of
\* the selected configuration, which is no base station, and passenger,
\* destination and fuel are those of the sampled state.
C8_TaxiOnExtraCell ==
    sampled # None =>
        /\ << ResetFields[1], ResetFields[2] >> = ExtraCell
        /\ ~In(ExtraCell, stations)
        /\ ResetFields[3] = SampledFields[3]
        /\ ResetFields[4] = SampledFields[4]
        /\ ResetFields[5] = SampledFields[5]

\* C8 amended: in the state reset returns the taxi is on the sampled cell; the
\* extra cell of the selected configuration is the cell start_fuel_station
\* settled on, which is no base station; passenger, destination and fuel are
\* those of the sampled state.
C8_ResetKeepsTaxiCell ==
    sampled # None =>
        /\ ret[1].state = s[1]
        /\ << ResetFields[1], ResetFields[2] >> = << SampledFields[1], SampledFields[2] >>
        /\ ExtraCell = cell[1].final
        /\ ~In(ExtraCell, stations)
        /\ ResetFields[3] = SampledFields[3]
        /\ ResetFields[4] = SampledFields[4]
        /\ ResetFields[5] = SampledFields[5]

\* a reset whose extra cell is not the taxi's cell
C8_Witness ==
    /\ sampled # None
    /\ << ResetFields[1], ResetFields[2] >> = << 0, 0 >>
    /\ ExtraCell = << 0, 1 >>
    /\ ResetFields[5] = 4

\* the cells one unblocked move south, north, east or west of (row, col)
OneMoveFrom(row, col) ==
    (IF row < max_row THEN { << row + 1, col >> } ELSE {})
    \cup (IF row > 0 THEN { << row - 1, col >> } ELSE {})
    \cup (IF desc(1 + row, 2 * col + 2) = ":" THEN { << row, col + 1 >> } ELSE {})
    \cup (IF desc(1 + row, 2 * col) = ":" THEN { << row, col - 1 >> } ELSE {})

\* C9: in every state reset returns, the extra cell is one unblocked move
\* south, north, east or west of the sampled taxi cell, unless the cell drawn
\* first was a base station and was drawn again.
C9_ExtraCellOneMoveAway ==
    (sampled # None /\ ~In(cell[1].first, stations)) =>
        ExtraCell \in OneMoveFrom(SampledFields[1], SampledFields[2])

----------------------------------------------------------------------------
(* Properties of step, stated of Spec *)

\* C14: a call step(a) with a in 0..6 returns the state, reward and terminated
\* flag of the single table outcome for (current state, a) with truncated =
\* false, makes that state the current state and a the last action, and
\* changes nothing else; neither step nor reset changes the station
\* configurations, from which the table is computed.
C14_StepReturnsTableOutcome ==
    [][ /\ stations' = stations
        /\ all_fuel_stations' = all_fuel_stations
        /\ (ret'[1].call = "step" /\ ret'[1].action \in ActionKeys) =>
              \A a \in { ret'[1].action } : \A transitions \in { P(s[1], a) } :
                  /\ Len(transitions) = 1
                  /\ ret'[1].state = transitions[1].new_state
                  /\ ret'[1].reward = transitions[1].reward
                  /\ ret'[1].terminated = transitions[1].terminated
                  /\ ret'[1].truncated = FALSE
                  /\ s' = Some(transitions[1].new_state)
                  /\ lastaction' = Some(a)
                  /\ loop' = loop
                  /\ entry' = entry ]_vars

\* a pickup that succeeded: the passenger of the current state is in the taxi
C14_Witness ==
    /\ ret # None
    /\ ret[1].call = "step"
    /\ ret[1].action = 4
    /\ lastaction = Some(4)
    /\ ret[1].reward = -1
    /\ ret[1].state = s[1]
    /\ decode(s[1]).value[3] = 4

\* C17: a call of step with an action index outside 0..6 raises an error; the
\* current state and the last action are those of before the call, and no
\* reward and no next state is returned.
C17_InvalidActionRejected ==
    [][ (ret'[1].call = "step" /\ ret'[1].action \notin 0..(num_actions - 1)) =>
            /\ DOMAIN ret'[1] = { "call", "action", "raised" }
            /\ s' = s
            /\ lastaction' = lastaction ]_vars

\* step(7) raised after a pickup
C17_Witness ==
    /\ ret # None
    /\ ret[1].call = "step"
    /\ ret[1].action = 7
    /\ "raised" \in DOMAIN ret[1]
    /\ lastaction = Some(4)
    /\ s # None

----------------------------------------------------------------------------
(* Properties of the initial-state distribution, stated of Spec *)

\* C15: the initial-state distribution is positive exactly on the states with
\* passenger < 4 and passenger # destination, with the same weight on each;
\* the state reset samples and the state reset returns have the passenger at a
\* landmark that is not the destination.
C15_StartsWithPassengerWaiting ==
    sampled # None =>
        /\ SampledFields[3] < 4
        /\ SampledFields[3] # SampledFields[4]
        /\ InitialCount(SampledFields[1], SampledFields[2], SampledFields[3],
                        SampledFields[4], SampledFields[5], SampledFields[6]) = 1
        /\ ResetFields[3] < 4
        /\ ResetFields[3] # ResetFields[4]
        /\ \A pass_idx \in 0..Len(locs), dest_idx \in 0..(Len(locs) - 1) :
              InitialCount(ResetFields[1], ResetFields[2], pass_idx, dest_idx,
                           ResetFields[5], ResetFields[6])
                  = IF pass_idx < 4 /\ pass_idx # dest_idx THEN 1 ELSE 0

\* a reset with the passenger at B and the destination R
C15_Witness ==
    /\ sampled # None
    /\ ResetFields[3] = 3
    /\ ResetFields[4] = 0
    /\ ret[1].call = "reset"
    /\ ret[1].state = s[1]

----------------------------------------------------------------------------
(* Properties of decode, stated of SpecCodec *)

\* C16: for every integer i outside 0 .. num_states - 1, negative or not,
\* decode(i) raises the assertion failure and returns no value.
C16_DecodeOutOfDomainRaises ==
    (ret # None /\ ret[1].call = "decode" /\ ret[1].i \notin 0..(num_states - 1)) =>
        /\ DOMAIN ret[1] = { "call", "i", "raised" }
        /\ ret[1].raised = "AssertionError"

\* decode(-1), which without the assertion would return row -1 and the
\* largest value of every other field
C16_Witness ==
    /\ ret # None
    /\ ret[1].call = "decode"
    /\ ret[1].i = 0 - 1
    /\ "raised" \in DOMAIN ret[1]
    /\ decode(ret[1].i).value = << 0 - 1, 4, 4, 3, 10, len_fuel_stations - 1 >>

----------------------------------------------------------------------------
(* Properties of the constructor, stated of SpecConstruct *)

\* the station counts C18 calls invalid
InvalidCount(n) == n < 1 \/ n - 1 > num_rows * num_columns

\* the while loop of init_fuel_stations goes on and every cell of the grid is
\* in the list: every draw to come is in the list, the loop never ends
LoopsForever ==
    /\ ctor[1].pc = "init_fuel_stations"
    /\ Len(ctor[1].stations) < ctor[1].num_fuel_stations - 1
    /\ \A k \in 1..Len(GridCells) : In(GridCells[k], ctor[1].stations)

\* C18: the constructor called with an invalid station count fails: it returns
\* no environment, so none whose station configurations have a size other than
\* the count and none with an empty state space, and it does not loop forever
\* drawing base stations.
C18_InvalidCountFails ==
    (ctor # None /\ InvalidCount(ctor[1].num_fuel_stations)) =>
        /\ ctor[1].pc # "returned"
        /\ ctor[1].pc = "returned" =>
              /\ \A k \in 1..Len(all_fuel_stations) :
                    Len(all_fuel_stations[k]) = ctor[1].num_fuel_stations
              /\ Len(all_fuel_stations) > 0
        /\ ~LoopsForever

----------------------------------------------------------------------------
(* Properties of episodes, stated of Spec *)

\* the call that led to the next state was step(a) for a key a of the table
StepTaken == ret'[1].call = "step" /\ ret'[1].action \in 0..(num_actions - 1)

C25_DeliveredOnlyByDropoff ==
    [][ /\ ret'[1].call = "reset" =>
              \A u \in { decode(s'[1]).value } : u[3] # u[4]
        /\ (s # None /\ StepTaken) =>
              \A t \in { decode(s[1]).value } : \A u \in { decode(s'[1]).value } :
                  (t[3] # t[4] /\ u[3] = u[4]) =>
                      /\ ret'[1].action = 5
                      /\ t[3] = 4
                      /\ << t[1], t[2] >> = locs[t[4] + 1] ]_vars

\* a delivery at Y (4, 0) with the last unit of fuel but one
C25_Witness ==
    /\ s # None
    /\ lastaction = Some(5)
    /\ ret[1].call = "step"
    /\ ret[1].action = 5
    /\ ret[1].reward = 20
    /\ ret[1].terminated
    /\ decode(s[1]).value[3] = decode(s[1]).value[4]
    /\ << decode(s[1]).value[1], decode(s[1]).value[2] >> = << 4, 0 >>

====
